---- MODULE Spec2Model ----
(***************************************************************************)
(* Closed-loop analysis state machine of the business-analysis agent       *)
(* (src/agent_graph.py, class BAAgent), driven through BAAgent.analyze.    *)
(*                                                                         *)
(* The graph is compiled by langgraph's StateGraph (src/agent_graph.py     *)
(* lines 64-95).  Its execution rules, as far as this model needs them:    *)
(*   - the AgentState lives in per-key channels; a node receives a dict    *)
(*     assembled from the channels and the dict it returns is written      *)
(*     back key by key;                                                    *)
(*   - the function of a conditional edge (should_retry) receives a dict   *)
(*     freshly assembled from the channels after the node's writes; only   *)
(*     its return value (the route) is used, the dict is discarded;        *)
(*   - graph.invoke without a config runs at most 25 super-steps (one per  *)
(*     node execution) and raises GraphRecursionError when the graph has   *)
(*     not reached END by then;                                            *)
(*   - an exception raised by a node propagates out of graph.invoke.       *)
(***************************************************************************)
EXTENDS Integers, Sequences, FiniteSets, TLC

(***************************************************************************)
(* Bounds of the model.                                                    *)
(***************************************************************************)
\* BAAgent(max_retries=...) is drawn from 0..MaxMaxRetries
MaxMaxRetries == 2
\* a loaded table has 0..MaxRows rows
MaxRows == 1
\* a tabular result of generated code has 0..MaxResultRows rows
MaxResultRows == 5
\* number of analyze calls made on one BAAgent
MaxRuns == 2

\* langgraph's default recursion_limit, in force for graph.invoke(initial_state)
RecursionLimit == 25

(***************************************************************************)
(* Values.                                                                 *)
(***************************************************************************)
\* the loaded tables (keys of data_profiler.tables)
TableNames == {"orders", "products"}

\* Python's "" / None, and the texts the stages build.  A text is modelled
\* by the tuple of the parts it is formatted from.
EmptyStr == <<>>
None == <<"None">>

\* the combined row count of a tables dict  (sum(len(df) for df in tables.values()))
RECURSIVE SumRows(_)
SumRows(t) ==
    IF DOMAIN t = {} THEN 0
    ELSE LET n == CHOOSE x \in DOMAIN t : TRUE
         IN  t[n] + SumRows([m \in DOMAIN t \ {n} |-> t[m]])

(***************************************************************************)
(* Generated code is identified with what running it does:                 *)
(*   kind   - how exec(code, exec_globals) ends and what `result` is bound *)
(*            to afterwards;                                               *)
(*   rows   - len(result) when result is a DataFrame;                      *)
(*   effect - what the code does to the `tables` binding it is given.      *)
(***************************************************************************)
CodeKinds == {"raises_Exception", "raises_BaseException", "no_result", "DataFrame", "scalar"}
TableEffects == {"none", "add_key", "pop_key", "inplace_grow", "inplace_shrink"}
Codes ==
    { [kind |-> k, rows |-> r, effect |-> e] :
        k \in CodeKinds \ {"DataFrame"}, r \in {0}, e \in TableEffects }
    \cup
    { [kind |-> "DataFrame", rows |-> r, effect |-> e] :
        r \in 0..MaxResultRows, e \in TableEffects }
NoCode == [kind |-> "no_result", rows |-> 0, effect |-> "none"]

\* replies of the text-generation collaborator; LLMFailure is the exception of
\* llm.invoke raising (timeout, non-2xx, malformed payload)
LLMFailure == "llm_call_failed"
IntentReplies == {"json", "fenced_json", "text", "fenced_text"}
Plans == {"plan_a", "plan_b"}

VARIABLES
    pc,                 \* the node langgraph runs next; "idle", "END", "raised"
    intent, plan, code, execution_result, error,   \* AgentState
    retry_count, max_retries, answer,              \* AgentState
    self_max_retries,   \* BAAgent.max_retries
    profiler_tables,    \* data_profiler.tables: table name -> len(df)
    llm_input,          \* the state fields formatted into the last prompt
    route,              \* the last value returned by should_retry
    branch_retry_count, \* retry_count in the dict should_retry was handed, on its return
    steps,              \* super-steps taken by this graph.invoke
    execs,              \* executions of execution_verification in this run
    runs,               \* analyze calls made so far
    raised              \* the exception that left graph.invoke, if any

\* state of the other components; each specification below moves the
\* variables of one component and leaves the others where they start
VARIABLES
    run_state,          \* AgentState and position of each of several interleaved analyze calls
    semantic_map,       \* SemanticMapper.semantic_map
    mapper_result,      \* what the last call on the SemanticMapper was and how it ended
    fence_reply,        \* a reply of the text-generation collaborator, as text
    fence_out           \* what a stage made of fence_reply

agentVars == <<pc, intent, plan, code, execution_result, error, retry_count, max_retries,
               answer, self_max_retries, profiler_tables, llm_input, route,
               branch_retry_count, steps, execs, runs, raised>>

runsVars == <<run_state>>
mapperVars == <<semantic_map, mapper_result>>
fenceVars == <<fence_reply, fence_out>>

\* state of the DataProfiler
VARIABLES
    sample_size,        \* DataProfiler.sample_size
    sort_ties,          \* how this build's sort orders equal counts in value_counts
    series,             \* the column handed to profile_column
    column_profile,     \* what profile_column returned for series
    tables,             \* DataProfiler.tables, in insertion order
    profiles,           \* DataProfiler.profiles
    profiler_op         \* the last DataProfiler method that returned

columnVars == <<series, column_profile>>
profilerVars == <<sample_size, sort_ties, tables, profiles, profiler_op>>

\* state of a PythonTool and of its execute_with_retry call
VARIABLES
    api_call_func,      \* whether PythonTool.api_call_func is set
    tool_pc,            \* position in execute_with_retry: "idle", "execute", "fix", "returned", "raised"
    attempt,            \* the loop variable of execute_with_retry
    current_code,       \* the code the next execute runs
    result,             \* the dict of the last execute, with attempts
    executions,         \* the code texts executed by this call, in order
    fix_calls           \* api_call_func calls made by this call

toolVars == <<api_call_func, tool_pc, attempt, current_code, result, executions, fix_calls>>

\* state of a BAAgentApp
VARIABLES
    app_agent,          \* BAAgentApp.agent: None, or the agent built by a load_excel
    conversations,      \* rows of the conversations table of this session
    data_sources,       \* rows of the data_sources table of this session
    app_call,           \* the last BAAgentApp call and how it ended
    app_calls           \* BAAgentApp calls made so far

appVars == <<app_agent, conversations, data_sources, app_call, app_calls>>

restVars == <<columnVars, profilerVars, toolVars, appVars>>

otherVars == <<runsVars, mapperVars, fenceVars, restVars>>

vars == <<agentVars, otherVars>>

stateVars == <<intent, plan, code, execution_result, error, retry_count, max_retries, answer>>

NoPrompt == [stage |-> "none"]

\* no interleaved run, no mapper call and no reply text yet
RunsParked == run_state = <<>>
NoCall == [op |-> "none", ever_generated |-> FALSE, ever_failed |-> FALSE]
\* Optional[SemanticMap]: <<>> is None, <<m>> is the map m
Unset == <<>>
Some(m) == <<m>>
MapperParked == semantic_map = Unset /\ mapper_result = NoCall
NoStage == [stage |-> "none"]
FenceParked == fence_reply = <<>> /\ fence_out = NoStage
\* DataProfiler() as constructed by default, nothing loaded or profiled;
\* reloaded: some load so far put new data under a name already loaded
NoOp == [method |-> "none", reloaded |-> FALSE]
DefaultSampleSize == 10
ColumnParked == series = <<>> /\ column_profile = <<>>
ProfilerParked ==
    /\ sample_size = DefaultSampleSize
    /\ sort_ties = "first_seen"
    /\ tables = <<>>
    /\ profiles = <<>>
    /\ profiler_op = NoOp
\* a PythonTool on which execute_with_retry has not been called
ToolParked ==
    /\ api_call_func = FALSE
    /\ tool_pc = "idle"
    /\ attempt = 0
    /\ current_code = <<>>
    /\ result = <<>>
    /\ executions = <<>>
    /\ fix_calls = 0
\* BAAgentApp.__init__: no agent, an empty session
NoAppCall == [op |-> "none"]
AppParked ==
    /\ app_agent = <<>>
    /\ conversations = <<>>
    /\ data_sources = <<>>
    /\ app_call = NoAppCall
    /\ app_calls = 0
RestParked == ColumnParked /\ ProfilerParked /\ ToolParked /\ AppParked

\* BAAgent.__init__ over a loaded DataProfiler; no analyze call made yet
AgentInit ==
    /\ pc = "idle"
    /\ intent = EmptyStr
    /\ plan = EmptyStr
    /\ code = NoCode
    /\ execution_result = None
    /\ error = EmptyStr
    /\ retry_count = 0
    /\ self_max_retries \in 0..MaxMaxRetries
    /\ max_retries = self_max_retries
    /\ answer = EmptyStr
    /\ profiler_tables \in [TableNames -> 0..MaxRows]
    /\ llm_input = NoPrompt
    /\ route = "none"
    /\ branch_retry_count = 0
    /\ steps = 0
    /\ execs = 0
    /\ runs = 0
    /\ raised = "none"

Init == AgentInit /\ RunsParked /\ MapperParked /\ FenceParked /\ RestParked

(***************************************************************************)
(* BAAgent.analyze, lines 324-338: the initial AgentState of a run.        *)
(***************************************************************************)
InitialRetryCount == 0

(***************************************************************************)
(* intent_routing, lines 136-144: a reply holding "```json" is cut down to *)
(* the text between the fences; a text json.loads accepts is re-serialised,*)
(* any other text is kept as it is.                                        *)
(***************************************************************************)
IntentOf(reply) ==
    CASE reply = "json"        -> <<"structured">>
      [] reply = "fenced_json" -> <<"structured">>
      [] reply = "text"        -> <<"raw", "reply">>
      [] reply = "fenced_text" -> <<"raw", "fence_payload">>

\* the state fields the three prompts are formatted from
IntentPrompt == [stage |-> "intent_routing", query |-> "query", profile_summary |-> "summary"]

PlanningPrompt(i) ==
    [stage |-> "logical_planning", query |-> "query", intent |-> i, semantic_map |-> "map"]

CodePrompt(p) == [stage |-> "code_generation", plan |-> p, profile_summary |-> "summary"]

(***************************************************************************)
(* execution_verification, lines 247-262: the tables dict is built from    *)
(* data_profiler.get_table, which hands out the profiler's own DataFrame   *)
(* objects; exec runs the code on that dict.                               *)
(***************************************************************************)
Clamp(n) == IF n < 0 THEN 0 ELSE IF n > MaxRows THEN MaxRows ELSE n

\* data_profiler.tables after the code ran: in-place changes of a DataFrame
\* are changes of the profiler's table, changes of the dict are not
ProfilerAfter(c, prof) ==
    CASE c.effect = "inplace_grow"   -> [prof EXCEPT !["orders"] = Clamp(@ + 1)]
      [] c.effect = "inplace_shrink" -> [prof EXCEPT !["orders"] = Clamp(@ - 1)]
      [] OTHER                       -> prof

\* the local tables dict after the code ran
TablesAfter(c, prof) ==
    CASE c.effect = "add_key" ->
            [n \in DOMAIN prof \cup {"merged"} |->
                IF n = "merged" THEN c.rows ELSE prof[n]]
      [] c.effect = "pop_key" -> [n \in DOMAIN prof \ {"orders"} |-> prof[n]]
      [] OTHER                -> ProfilerAfter(c, prof)

\* line 270-271: the cartesian-product guard, evaluated after exec returned
OriginalRows(c, prof) == SumRows(TablesAfter(c, prof))

CartesianSuspected(c, prof) == c.rows > OriginalRows(c, prof) * 2

MissingResultError == <<"missing_result">>
CartesianError(c, prof) == <<"cartesian_product", c.rows, OriginalRows(c, prof)>>
ExceptionError == <<"exception", "type: message", "traceback">>

\* execution_verification with the cartesian branch leaving the result set
ExecOutcome_CartesianKeepsResult(c, prof) ==
    CASE c.kind = "raises_Exception" ->
            [raises |-> FALSE, error |-> ExceptionError, execution_result |-> None]
      [] c.kind = "raises_BaseException" ->
            [raises |-> TRUE, error |-> EmptyStr, execution_result |-> None]
      [] c.kind = "no_result" ->
            [raises |-> FALSE, error |-> MissingResultError, execution_result |-> None]
      [] c.kind = "DataFrame" ->
            [raises |-> FALSE,
             error |-> IF CartesianSuspected(c, prof)
                       THEN CartesianError(c, prof) ELSE EmptyStr,
             execution_result |-> <<"to_dict", c.rows>>]
      [] c.kind = "scalar" ->
            [raises |-> FALSE, error |-> EmptyStr, execution_result |-> <<"str", 0>>]

(***************************************************************************)
(* execution_verification, lines 259-283: what the stage writes.  `except  *)
(* Exception` does not catch an exception that derives from BaseException  *)
(* only (SystemExit, KeyboardInterrupt): that one leaves the stage.        *)
(***************************************************************************)
ExecOutcome(c, prof) ==
    CASE c.kind = "raises_Exception" ->
            [raises |-> FALSE, error |-> ExceptionError, execution_result |-> None]
      [] c.kind = "raises_BaseException" ->
            [raises |-> TRUE, error |-> EmptyStr, execution_result |-> None]
      [] c.kind = "no_result" ->
            [raises |-> FALSE, error |-> MissingResultError, execution_result |-> None]
      [] c.kind = "DataFrame" ->
            IF CartesianSuspected(c, prof)
            THEN [raises |-> FALSE, error |-> CartesianError(c, prof),
                  execution_result |-> None]
            ELSE [raises |-> FALSE, error |-> EmptyStr,
                  execution_result |-> <<"to_dict", c.rows>>]
      [] c.kind = "scalar" ->
            [raises |-> FALSE, error |-> EmptyStr, execution_result |-> <<"str", 0>>]

(***************************************************************************)
(* should_retry, lines 299-309: the route, and retry_count in the dict the *)
(* function was handed when it returns.                                    *)
(***************************************************************************)
\* should_retry with the budget test written > instead of >=
should_retry_OffByOne(err, rc, mr) ==
    IF err = EmptyStr THEN [route |-> "success", retry_count |-> rc]
    ELSE IF rc > mr THEN [route |-> "give_up", retry_count |-> rc]
    ELSE [route |-> "retry", retry_count |-> rc + 1]

should_retry(err, rc, mr) ==
    IF err = EmptyStr THEN [route |-> "success", retry_count |-> rc]
    ELSE IF rc >= mr THEN [route |-> "give_up", retry_count |-> rc]
    ELSE [route |-> "retry", retry_count |-> rc + 1]

\* the path map with the retry edge wired to code_generation
PathMap_RetryToCodeGeneration(r) ==
    CASE r = "retry"   -> "code_generation"
      [] r = "success" -> "format_answer"
      [] r = "give_up" -> "format_answer"

\* lines 83-91: the path map of the conditional edge
PathMap(r) ==
    CASE r = "retry"   -> "logical_planning"
      [] r = "success" -> "format_answer"
      [] r = "give_up" -> "format_answer"

\* format_answer without its failure branch
FormatAnswer_NoFailureBranch(err, res) == <<"result", res>>

\* format_answer, lines 289-293
FormatAnswer(err, res) ==
    IF err # EmptyStr THEN <<"failed", err>> ELSE <<"result", res>>

Nodes == {"intent_routing", "logical_planning", "code_generation",
          "execution_verification", "format_answer"}

(***************************************************************************)
(* Actions.                                                                *)
(***************************************************************************)
\* BAAgent.analyze, lines 313-341: a fresh AgentState, then graph.invoke
analyze ==
    /\ UNCHANGED otherVars
    /\ pc \in {"idle", "END", "raised"}
    /\ runs < MaxRuns
    /\ runs' = runs + 1
    /\ intent' = EmptyStr
    /\ plan' = EmptyStr
    /\ code' = NoCode
    /\ execution_result' = None
    /\ error' = EmptyStr
    /\ retry_count' = InitialRetryCount
    /\ max_retries' = self_max_retries
    /\ answer' = EmptyStr
    /\ pc' = "intent_routing"
    /\ steps' = 0
    /\ execs' = 0
    /\ route' = "none"
    /\ branch_retry_count' = InitialRetryCount
    /\ raised' = "none"
    /\ llm_input' = NoPrompt
    /\ UNCHANGED <<self_max_retries, profiler_tables>>

\* an exception leaves the node and graph.invoke; nothing is written
Raise(exc) ==
    /\ pc' = "raised"
    /\ raised' = exc
    /\ UNCHANGED stateVars

intent_routing ==
    /\ UNCHANGED otherVars
    /\ pc = "intent_routing"
    /\ steps < RecursionLimit
    /\ steps' = steps + 1
    /\ llm_input' = IntentPrompt
    /\ \/ Raise(LLMFailure)
       \/ \E reply \in IntentReplies :
             /\ intent' = IntentOf(reply)
                 /\ pc' = "logical_planning"
                 /\ UNCHANGED <<plan, code, execution_result, error, retry_count,
                                max_retries, answer, raised>>
    /\ UNCHANGED <<self_max_retries, profiler_tables, route, branch_retry_count, execs, runs>>

logical_planning ==
    /\ UNCHANGED otherVars
    /\ pc = "logical_planning"
    /\ steps < RecursionLimit
    /\ steps' = steps + 1
    /\ llm_input' = PlanningPrompt(intent)
    /\ \/ Raise(LLMFailure)
       \/ \E reply \in Plans :
             /\ plan' = <<reply>>
                 /\ pc' = "code_generation"
                 /\ UNCHANGED <<intent, code, execution_result, error, retry_count,
                                max_retries, answer, raised>>
    /\ UNCHANGED <<self_max_retries, profiler_tables, route, branch_retry_count, execs, runs>>

code_generation ==
    /\ UNCHANGED otherVars
    /\ pc = "code_generation"
    /\ steps < RecursionLimit
    /\ steps' = steps + 1
    /\ llm_input' = CodePrompt(plan)
    /\ \/ Raise(LLMFailure)
       \/ \E reply \in Codes :
             /\ code' = reply
                 /\ pc' = "execution_verification"
                 /\ UNCHANGED <<intent, plan, execution_result, error, retry_count,
                                max_retries, answer, raised>>
    /\ UNCHANGED <<self_max_retries, profiler_tables, route, branch_retry_count, execs, runs>>

\* the node and, in the same super-step, the conditional edge out of it
execution_verification ==
    /\ UNCHANGED otherVars
    /\ pc = "execution_verification"
    /\ steps < RecursionLimit
    /\ steps' = steps + 1
    /\ execs' = execs + 1
    /\ profiler_tables' = ProfilerAfter(code, profiler_tables)
    /\ LET out == ExecOutcome(code, profiler_tables)
           br  == should_retry(out.error, retry_count, max_retries)
       IN  IF out.raises
           THEN /\ Raise("BaseException")
                /\ UNCHANGED <<route, branch_retry_count>>
           ELSE /\ error' = out.error
                /\ execution_result' = out.execution_result
                /\ route' = br.route
                /\ branch_retry_count' = br.retry_count
                /\ pc' = PathMap(br.route)
                /\ UNCHANGED <<intent, plan, code, retry_count, max_retries, answer, raised>>
    /\ UNCHANGED <<self_max_retries, llm_input, runs>>

format_answer ==
    /\ UNCHANGED otherVars
    /\ pc = "format_answer"
    /\ steps < RecursionLimit
    /\ steps' = steps + 1
    /\ answer' = FormatAnswer(error, execution_result)
    /\ pc' = "END"
    /\ UNCHANGED <<intent, plan, code, execution_result, error, retry_count, max_retries,
                   self_max_retries, profiler_tables, llm_input, route,
                   branch_retry_count, execs, runs, raised>>

\* graph.invoke: the step budget is used up and a node is still due
GraphRecursionError ==
    /\ UNCHANGED otherVars
    /\ pc \in Nodes
    /\ steps >= RecursionLimit
    /\ Raise("GraphRecursionError")
    /\ UNCHANGED <<self_max_retries, profiler_tables, llm_input, route,
                   branch_retry_count, steps, execs, runs>>

Next ==
    \/ analyze
    \/ intent_routing
    \/ logical_planning
    \/ code_generation
    \/ execution_verification
    \/ format_answer
    \/ GraphRecursionError

Spec == Init /\ [][Next]_vars


(***************************************************************************)
(* Interleaved analyze calls on one BAAgent.  Each call builds its own     *)
(* initial_state dict (lines 324-338) and hands it to graph.invoke (line   *)
(* 341), which keeps the state of an invocation in that invocation alone   *)
(* (the graph is compiled without a checkpointer, line 95).  The nodes are *)
(* the ones above; a call is followed up to MaxRunExecs executions.        *)
(***************************************************************************)
\* executions of execution_verification followed in one interleaved call
MaxRunExecs == 2

\* the callers that use the agent at the same time
Callers == {"caller_1", "caller_2"}

\* replies followed in the interleaved calls: one reply json.loads accepts and
\* one it rejects; code that leaves tables alone and binds no result, binds
\* a scalar, or raises past `except Exception`
RunIntentReplies == {"json", "text"}
RunCodes ==
    { c \in Codes : c.effect = "none"
                     /\ c.kind \in {"no_result", "scalar", "raises_BaseException"} }

\* lines 324-338
InitialState(mr) ==
    [pc |-> "intent_routing", intent |-> EmptyStr, plan |-> EmptyStr, code |-> NoCode,
     execution_result |-> None, error |-> EmptyStr, retry_count |-> InitialRetryCount,
     max_retries |-> mr, answer |-> EmptyStr, execs |-> 0]

\* a caller that has not called analyze yet
NotCalled == [InitialState(0) EXCEPT !.pc = "idle"]

\* the bug of keeping the AgentState on the agent: a write of one call is
\* a write to the state of all of them
WriteState_OnAgent(rs, r, st) ==
    [x \in DOMAIN rs |-> [st EXCEPT !.calls = rs[x].calls]]

\* a stage of call r writes the dict of call r
WriteState(rs, r, st) == [rs EXCEPT ![r] = st]

RunsInit ==
    /\ AgentInit
    /\ profiler_tables = [n \in TableNames |-> MaxRows]
    /\ run_state = [r \in Callers |-> [calls |-> 0] @@ NotCalled]
    /\ MapperParked
    /\ FenceParked
    /\ RestParked

RunsFrame ==
    UNCHANGED <<pc, intent, plan, code, execution_result, error, retry_count, max_retries,
                answer, self_max_retries, llm_input, route, branch_retry_count, steps,
                execs, runs, raised, mapperVars, fenceVars, restVars>>

RunStep(r, st) ==
    /\ run_state' = WriteState(run_state, r, [calls |-> run_state[r].calls] @@ st)
    /\ UNCHANGED profiler_tables
    /\ RunsFrame

RunAnalyze(r) ==
    /\ run_state[r].pc \in {"idle", "END", "raised"}
    /\ run_state[r].calls < MaxRuns
    /\ run_state' = WriteState(run_state, r,
                        [calls |-> run_state[r].calls + 1] @@ InitialState(self_max_retries))
    /\ UNCHANGED profiler_tables
    /\ RunsFrame

RunIntentRouting(r) ==
    LET st == run_state[r]
    IN  /\ st.pc = "intent_routing"
        /\ \/ RunStep(r, [st EXCEPT !.pc = "raised"])
           \/ \E reply \in RunIntentReplies :
                 RunStep(r, [st EXCEPT !.intent = IntentOf(reply),
                                       !.pc = "logical_planning"])

RunLogicalPlanning(r) ==
    LET st == run_state[r]
    IN  /\ st.pc = "logical_planning"
        /\ st.execs < MaxRunExecs
        /\ \/ RunStep(r, [st EXCEPT !.pc = "raised"])
           \/ \E reply \in Plans :
                 RunStep(r, [st EXCEPT !.plan = <<reply>>, !.pc = "code_generation"])

RunCodeGeneration(r) ==
    LET st == run_state[r]
    IN  /\ st.pc = "code_generation"
        /\ \/ RunStep(r, [st EXCEPT !.pc = "raised"])
           \/ \E reply \in RunCodes :
                 RunStep(r, [st EXCEPT !.code = reply, !.pc = "execution_verification"])

RunExecutionVerification(r) ==
    LET st  == run_state[r]
        out == ExecOutcome(st.code, profiler_tables)
        br  == should_retry(out.error, st.retry_count, st.max_retries)
    IN  /\ st.pc = "execution_verification"
        /\ profiler_tables' = ProfilerAfter(st.code, profiler_tables)
        /\ RunsFrame
        /\ run_state' = WriteState(run_state, r,
              [calls |-> st.calls] @@
              (IF out.raises
               THEN [st EXCEPT !.pc = "raised", !.execs = @ + 1]
               ELSE [st EXCEPT !.error = out.error,
                               !.execution_result = out.execution_result,
                               !.pc = PathMap(br.route),
                               !.execs = @ + 1]))

RunFormatAnswer(r) ==
    LET st == run_state[r]
    IN  /\ st.pc = "format_answer"
        /\ RunStep(r, [st EXCEPT !.answer = FormatAnswer(st.error, st.execution_result),
                                 !.pc = "END"])

RunsNext ==
    \E r \in Callers :
        \/ RunAnalyze(r)
        \/ RunIntentRouting(r)
        \/ RunLogicalPlanning(r)
        \/ RunCodeGeneration(r)
        \/ RunExecutionVerification(r)
        \/ RunFormatAnswer(r)

SpecRuns == RunsInit /\ [][RunsNext]_vars

\* C14: each analyze call starts from a fresh AgentState whatever happened
\* before, and a step of one call leaves the AgentState of every other call
\* untouched, in every interleaving.
FreshFields(st) ==
    /\ st.retry_count = 0
    /\ st.error = EmptyStr
    /\ st.intent = EmptyStr
    /\ st.plan = EmptyStr
    /\ st.code = NoCode
    /\ st.execution_result = None
    /\ st.answer = EmptyStr

C14_FreshAndIsolated ==
    [][ \A r \in Callers :
          /\ (run_state'[r].calls # run_state[r].calls => FreshFields(run_state'[r]))
          /\ (run_state'[r] # run_state[r] =>
                \A o \in Callers \ {r} : run_state'[o] = run_state[o]) ]_vars

\* a second call of one caller starts while the other caller's run is under
\* way, after the caller's first run ended in a failure answer
C14_Witness ==
    \E r \in Callers, o \in Callers :
        /\ r # o
        /\ run_state[r].calls = 2
        /\ run_state[r].pc = "intent_routing"
        /\ run_state[o].pc = "code_generation"
        /\ run_state[o].error # EmptyStr

(***************************************************************************)
(* SemanticMapper (src/semantic_mapper.py).  A text is the sequence of its *)
(* pieces; "." is a piece of its own, so that "table.column" can be split. *)
(***************************************************************************)
\* Python's `a in b` for two texts
IsSubstring(a, b) ==
    \E i \in 0..(Len(b) - Len(a)) : SubSeq(b, i + 1, i + Len(a)) = a

\* text.split(".")[0]
BeforeDot(t) ==
    LET dots == { i \in 1..Len(t) : t[i] = "." }
    IN  IF dots = {} THEN t
        ELSE SubSeq(t, 1, (CHOOSE i \in dots : \A j \in dots : i <= j) - 1)

Column(table, col) == table \o <<".", col>>

\* table names the collaborator may put in nodes, and names a caller may mention
TableTexts == {<<"orders">>, <<"orders", "_items">>, <<"products">>}
Mentions == {<<"orders">>, <<"products">>, <<"_items">>, <<"customers">>}

SemanticNodes == { [table |-> t] : t \in TableTexts }
SemanticEdges ==
    { [from_col |-> Column(<<"orders">>, "product_id"),
       to_col   |-> Column(<<"products">>, "id")],
      [from_col |-> Column(<<"orders", "_items">>, "order_id"),
       to_col   |-> Column(<<"orders">>, "id")] }

\* the lists json.loads + SemanticMap(**data) can produce: any nodes, any edges
RECURSIVE SeqOfSet(_)
SeqOfSet(S) ==
    IF S = {} THEN <<>>
    ELSE LET x == CHOOSE y \in S : TRUE IN <<x>> \o SeqOfSet(S \ {x})

SemanticMaps ==
    { [nodes |-> SeqOfSet(ns), edges |-> SeqOfSet(es)] :
        ns \in SUBSET SemanticNodes, es \in SUBSET SemanticEdges }

\* what the reply of the collaborator is once the fence is cut off: a payload
\* of the node/edge shape, a text json.loads rejects, or JSON of another shape
MapperReplies ==
    { [kind |-> "map", map |-> m] : m \in SemanticMaps }
    \cup { [kind |-> k, map |-> [nodes |-> <<>>, edges |-> <<>>]] :
             k \in {"not_json", "wrong_shape", "llm_call_failed"} }

Range(q) == { q[i] : i \in 1..Len(q) }

\* generate_semantic_map that answers a failed parse with an empty map
GenerateOutcome_EmptyMapOnFailure(reply, stored) ==
    IF reply.kind = "llm_call_failed"
    THEN [outcome |-> "raised", error |-> LLMFailure, value |-> Unset, stored |-> stored]
    ELSE [outcome |-> "returned", error |-> "", value |-> Some(reply.map), stored |-> Some(reply.map)]

\* generate_semantic_map, lines 84-100
GenerateOutcome(reply, stored) ==
    CASE reply.kind = "llm_call_failed" ->
            [outcome |-> "raised", error |-> LLMFailure, value |-> Unset, stored |-> stored]
      [] reply.kind = "map" ->
            [outcome |-> "returned", error |-> "", value |-> Some(reply.map), stored |-> Some(reply.map)]
      [] OTHER ->
            [outcome |-> "raised", error |-> "ValueError", value |-> Unset, stored |-> stored]

\* lines 121-124
RelevantNodes(m, mentioned) ==
    LET Hit(node) == \E table \in mentioned : IsSubstring(table, node.table)
    IN  SelectSeq(m.nodes, Hit)

\* lines 127-132 with `or` in place of `and`
RelevantEdges_EitherEndpoint(m, nodes) ==
    LET relevant_tables_set == { nodes[i].table : i \in 1..Len(nodes) }
        Hit(edge) == \/ BeforeDot(edge.from_col) \in relevant_tables_set
                     \/ BeforeDot(edge.to_col) \in relevant_tables_set
    IN  SelectSeq(m.edges, Hit)

\* lines 127-132
RelevantEdges(m, nodes) ==
    LET relevant_tables_set == { nodes[i].table : i \in 1..Len(nodes) }
        Hit(edge) == /\ BeforeDot(edge.from_col) \in relevant_tables_set
                     /\ BeforeDot(edge.to_col) \in relevant_tables_set
    IN  SelectSeq(m.edges, Hit)

\* get_relevant_subgraph without the guard of lines 117-118
SubgraphOutcome_NoGuard(stored, mentioned) ==
    IF stored = Unset
    THEN [outcome |-> "returned", error |-> "", value |-> Some([nodes |-> <<>>, edges |-> <<>>])]
    ELSE [outcome |-> "returned", error |-> "",
          value |-> Some([nodes |-> RelevantNodes(stored[1], mentioned),
                          edges |-> RelevantEdges(stored[1],
                                                  RelevantNodes(stored[1], mentioned))])]

\* get_relevant_subgraph, lines 117-134; a SemanticMap object is truthy
\* whatever it holds, so `not self.semantic_map` is `self.semantic_map is None`
SubgraphOutcome(stored, mentioned) ==
    IF stored = Unset
    THEN [outcome |-> "raised", error |-> "ValueError", value |-> Unset]
    ELSE [outcome |-> "returned", error |-> "",
          value |-> Some([nodes |-> RelevantNodes(stored[1], mentioned),
                          edges |-> RelevantEdges(stored[1],
                                                  RelevantNodes(stored[1], mentioned))])]

\* get_relevant_subgraph that filters the stored map in place
StoredAfterSubgraph_InPlace(stored, mentioned) ==
    IF stored = Unset THEN stored ELSE SubgraphOutcome(stored, mentioned).value

\* lines 120-134: the lists are built anew, self.semantic_map is not assigned
StoredAfterSubgraph(stored, mentioned) == stored

MapperInit ==
    /\ AgentInit
    /\ self_max_retries = 0
    /\ profiler_tables = [n \in TableNames |-> 0]
    /\ RunsParked
    /\ MapperParked
    /\ FenceParked
    /\ RestParked

generate_semantic_map ==
    /\ \E reply \in MapperReplies :
          LET out == GenerateOutcome(reply, semantic_map)
          IN  /\ semantic_map' = out.stored
              /\ mapper_result' =
                    [op |-> "generate_semantic_map", reply |-> reply.kind,
                     outcome |-> out.outcome, error |-> out.error, value |-> out.value,
                     ever_generated |-> mapper_result.ever_generated
                                            \/ reply.kind = "map",
                     ever_failed |-> mapper_result.ever_failed \/ reply.kind # "map"]
    /\ UNCHANGED <<agentVars, runsVars, fenceVars, restVars>>

get_relevant_subgraph ==
    /\ \E mentioned \in SUBSET Mentions :
          LET out == SubgraphOutcome(semantic_map, mentioned)
          IN  /\ semantic_map' = StoredAfterSubgraph(semantic_map, mentioned)
              /\ mapper_result' =
                    [op |-> "get_relevant_subgraph", mentioned |-> mentioned,
                     outcome |-> out.outcome, error |-> out.error, value |-> out.value,
                     ever_generated |-> mapper_result.ever_generated,
                     ever_failed |-> mapper_result.ever_failed]
    /\ UNCHANGED <<agentVars, runsVars, fenceVars, restVars>>

MapperNext ==
    \/ generate_semantic_map
    \/ get_relevant_subgraph

SpecMapper == MapperInit /\ [][MapperNext]_vars

Subgraphed == mapper_result.op = "get_relevant_subgraph" /\ mapper_result.outcome = "returned"

TablesOf(nodes) == { n.table : n \in Range(nodes) }

\* C15 as claimed: the nodes returned are the stored nodes that a mention
\* matches, the edges returned are the stored edges with both endpoint tables
\* among the returned nodes, and an edge of which not both endpoint tables are
\* mentioned is not returned.
C15_SubgraphByMention ==
    Subgraphed =>
        LET sub == mapper_result.value[1]
            men == mapper_result.mentioned
        IN  /\ Range(sub.nodes) =
                  { n \in Range(semantic_map[1].nodes) :
                        \E t \in men : IsSubstring(t, n.table) }
            /\ Range(sub.edges) =
                  { e \in Range(semantic_map[1].edges) :
                        /\ BeforeDot(e.from_col) \in TablesOf(sub.nodes)
                        /\ BeforeDot(e.to_col) \in TablesOf(sub.nodes) }
            /\ \A e \in Range(semantic_map[1].edges) :
                  ~(BeforeDot(e.from_col) \in men /\ BeforeDot(e.to_col) \in men)
                      => e \notin Range(sub.edges)

\* C15 as amended: the same, with an edge left out when a mention matches
\* (as a substring) not both of its endpoint tables.
C15_SubgraphByMatch ==
    Subgraphed =>
        LET sub == mapper_result.value[1]
            men == mapper_result.mentioned
            Matched(t) == \E x \in men : IsSubstring(x, t)
        IN  /\ Range(sub.nodes) = { n \in Range(semantic_map[1].nodes) : Matched(n.table) }
            /\ Range(sub.edges) =
                  { e \in Range(semantic_map[1].edges) :
                        /\ BeforeDot(e.from_col) \in TablesOf(sub.nodes)
                        /\ BeforeDot(e.to_col) \in TablesOf(sub.nodes) }
            /\ \A e \in Range(semantic_map[1].edges) :
                  ~(Matched(BeforeDot(e.from_col)) /\ Matched(BeforeDot(e.to_col)))
                      => e \notin Range(sub.edges)
            /\ Len(sub.nodes) <= Len(semantic_map[1].nodes)
            /\ Len(sub.edges) <= Len(semantic_map[1].edges)

\* only orders is mentioned: the edge to products is left out, the edge from
\* orders_items, whose name holds "orders", is returned
C15_Witness ==
    /\ Subgraphed
    /\ mapper_result.mentioned = {<<"orders">>}
    /\ Len(semantic_map[1].edges) = 2
    /\ Len(semantic_map[1].nodes) = 3
    /\ Len(mapper_result.value[1].edges) = 1

\* C16: get_relevant_subgraph raises as long as no generate_semantic_map call
\* has succeeded; it does not return a map then.
C16_SubgraphNeedsMap ==
    (mapper_result.op = "get_relevant_subgraph" /\ ~mapper_result.ever_generated) =>
        mapper_result.outcome = "raised" /\ mapper_result.error = "ValueError"

C16_Witness ==
    /\ mapper_result.op = "get_relevant_subgraph"
    /\ mapper_result.ever_failed
    /\ ~mapper_result.ever_generated
    /\ mapper_result.outcome = "raised"

\* C17: a get_relevant_subgraph call leaves the stored map as it was.
C17_ParentUnchanged ==
    [][ mapper_result'.op = "get_relevant_subgraph" => semantic_map' = semantic_map ]_vars

C17_Witness ==
    /\ Subgraphed
    /\ Len(mapper_result.value[1].nodes) < Len(semantic_map[1].nodes)
    /\ Len(mapper_result.value[1].edges) < Len(semantic_map[1].edges)

\* C18: a reply that does not parse into the node/edge shape makes
\* generate_semantic_map raise and leaves the stored map as it was; no map
\* is stored or returned in its place.
C18_ParseFailureIsHard ==
    [][ (mapper_result'.op = "generate_semantic_map"
         /\ mapper_result'.reply \in {"not_json", "wrong_shape"}) =>
            /\ mapper_result'.outcome = "raised"
            /\ mapper_result'.error = "ValueError"
            /\ mapper_result'.value = Unset
            /\ semantic_map' = semantic_map ]_vars

C18_Witness ==
    /\ mapper_result.op = "generate_semantic_map"
    /\ mapper_result.reply = "not_json"
    /\ mapper_result.outcome = "raised"
    /\ mapper_result.ever_generated
    /\ semantic_map # Unset

(***************************************************************************)
(* What the stages make of a reply text.  A reply is a sequence of pieces: *)
(* the fence marker, a language tag, a line break, a JSON text, other text.*)
(* A tagged fence is the marker followed by the tag.                       *)
(***************************************************************************)
\* a reply has at most MaxReplyLen pieces
MaxReplyLen == 6

\* the three-backtick marker
Fence == "FENCE"
Pieces == {Fence, "python", "json", "NL", "{}", "x"}
Replies == UNION { [1..k -> Pieces] : k \in 0..MaxReplyLen }

\* positions where sep occurs in text
Occurrences(text, sep) ==
    { i \in 1..(Len(text) - Len(sep) + 1) : SubSeq(text, i, i + Len(sep) - 1) = sep }

\* `sep in text`
Contains(text, sep) == Occurrences(text, sep) # {}

First(S) == CHOOSE i \in S : \A j \in S : i <= j

\* text.split(sep)[1].split(fence)[0] for a text that holds sep: what follows
\* the first sep, up to the next fence marker
Between(text, sep) ==
    LET start == First(Occurrences(text, sep)) + Len(sep)
        rest  == SubSeq(text, start, Len(text))
        stops == Occurrences(rest, <<Fence>>)
    IN  IF stops = {} THEN rest ELSE SubSeq(rest, 1, First(stops) - 1)

\* text.strip()
RECURSIVE Strip(_)
Strip(text) ==
    IF text = <<>> THEN text
    ELSE IF Head(text) = "NL" THEN Strip(Tail(text))
    ELSE IF text[Len(text)] = "NL" THEN Strip(SubSeq(text, 1, Len(text) - 1))
    ELSE text

\* code_generation, lines 234-238
ExtractCode(content) ==
    IF Contains(content, <<Fence, "python">>)
    THEN Strip(Between(content, <<Fence, "python">>))
    ELSE IF Contains(content, <<Fence>>)
    THEN Strip(Between(content, <<Fence>>))
    ELSE content

\* generate_semantic_map, lines 85-91
ExtractJson(content) ==
    IF Contains(content, <<Fence, "json">>)
    THEN Strip(Between(content, <<Fence, "json">>))
    ELSE IF Contains(content, <<Fence>>)
    THEN Strip(Between(content, <<Fence>>))
    ELSE content

\* intent_routing, lines 136-138
IntentContent(content) ==
    IF Contains(content, <<Fence, "json">>)
    THEN Strip(Between(content, <<Fence, "json">>))
    ELSE content

\* json.loads(content) returns: one JSON text, white space around it allowed
JsonLoads(content) == Strip(content) = <<"{}">>

\* intent_routing, lines 140-144
IntentText(content) ==
    IF JsonLoads(IntentContent(content)) THEN <<"structured">> ELSE IntentContent(content)

FenceInit ==
    /\ AgentInit
    /\ self_max_retries = 0
    /\ profiler_tables = [n \in TableNames |-> 0]
    /\ RunsParked
    /\ MapperParked
    /\ RestParked
    /\ fence_reply \in Replies
    /\ fence_out = NoStage

FenceFrame == UNCHANGED <<agentVars, runsVars, mapperVars, restVars, fence_reply>>

\* code_generation on the reply: the code text handed to exec
FenceCodeGeneration ==
    /\ fence_out' = [stage |-> "code_generation", text |-> ExtractCode(fence_reply)]
    /\ FenceFrame

\* generate_semantic_map on the reply: the text handed to json.loads
FenceGenerateSemanticMap ==
    /\ fence_out' = [stage |-> "generate_semantic_map", text |-> ExtractJson(fence_reply)]
    /\ FenceFrame

\* intent_routing on the reply: the intent text
FenceIntentRouting ==
    /\ fence_out' = [stage |-> "intent_routing", text |-> IntentText(fence_reply)]
    /\ FenceFrame

FenceNext ==
    \/ FenceCodeGeneration
    \/ FenceGenerateSemanticMap
    \/ FenceIntentRouting

SpecFence == FenceInit /\ [][FenceNext]_vars

\* C19: when the reply does not parse as the classification, intent is the
\* reply text verbatim; when it parses, intent is the structured
\* classification (and then the reply holds a JSON text).
C19_RawIntentVerbatim ==
    fence_out.stage = "intent_routing" =>
        \/ fence_out.text = <<"structured">> /\ Contains(fence_reply, <<"{}">>)
        \/ fence_out.text = fence_reply

\* a fenced reply: marker, optional tag, line break, payload, line break,
\* marker; the payload holds no marker and no tag, and neither starts nor
\* ends with a line break
TagLen(reply) == IF Len(reply) >= 2 /\ reply[2] \in {"python", "json"} THEN 1 ELSE 0
PayloadOf(reply) == SubSeq(reply, 3 + TagLen(reply), Len(reply) - 2)
IsFenced(reply) ==
    /\ Len(reply) >= 5 + TagLen(reply)
    /\ reply[1] = Fence
    /\ reply[2 + TagLen(reply)] = "NL"
    /\ reply[Len(reply) - 1] = "NL"
    /\ reply[Len(reply)] = Fence
    /\ \A i \in 1..Len(PayloadOf(reply)) : PayloadOf(reply)[i] \in {"{}", "x", "NL"}
    /\ Strip(PayloadOf(reply)) = PayloadOf(reply)

\* C20: of a reply that wraps its payload in a fence, with any tag or none,
\* code_generation hands exactly the payload to exec and
\* generate_semantic_map exactly the payload to the JSON parser; a reply
\* without a fence is passed on unchanged.
C20_FencePayloadExact ==
    fence_out.stage \in {"code_generation", "generate_semantic_map"} =>
        /\ (IsFenced(fence_reply) => fence_out.text = PayloadOf(fence_reply))
        /\ (~Contains(fence_reply, <<Fence>>) => fence_out.text = fence_reply)

(***************************************************************************)
(* DataProfiler.profile_column.  A column is its name, whether its dtype   *)
(* is numeric, and its cells; a cell is Null or a value 1..MaxValue.       *)
(***************************************************************************)
\* a column has at most MaxCells cells
MaxCells == 3
\* the non-null values of a cell are 1..MaxValue
MaxValue == 2
\* sample sizes up to MaxSampleSize are tried, next to the default
MaxSampleSize == 2

\* NaN / None in a cell  (series.isnull())
Null == 0

\* sample_size is any int the constructor is given: nothing checks it
SampleSizes == (-1..MaxSampleSize) \cup {DefaultSampleSize}

\* Series.value_counts sorts the counts with an argsort that need not be
\* stable: equal counts keep first-seen order in one build and not in another
SortTies == {"first_seen", "last_seen"}

CellSeqs == UNION { [1..k -> 0..MaxValue] : k \in 0..MaxCells }
SeriesSet == { [name |-> "c", numeric |-> n, cells |-> c] : n \in BOOLEAN, c \in CellSeqs }

IsNotNull(v) == v # Null

\* series.dropna()
DropNa(cells) == SelectSeq(cells, IsNotNull)

\* series.isnull().sum()
NullCount(cells) == Len(cells) - Len(DropNa(cells))

\* round(x, 4) of the quotient num / den, in ten-thousandths: nearest, half to even
Round4(num, den) ==
    LET q == (num * 10000) \div den
        r == (num * 10000) % den
    IN  IF 2 * r < den THEN q
        ELSE IF 2 * r > den THEN q + 1
        ELSE IF q % 2 = 0 THEN q ELSE q + 1

\* lines 82 and 104: null_rate, in ten-thousandths
NullRate(cells) == IF Len(cells) > 0 THEN Round4(NullCount(cells), Len(cells)) ELSE 0

\* the distinct values of a sequence in first-seen order (the keys value_counts counts)
RECURSIVE FirstSeen(_)
FirstSeen(q) ==
    IF q = <<>> THEN <<>>
    ELSE LET front == FirstSeen(SubSeq(q, 1, Len(q) - 1))
         IN  IF q[Len(q)] \in Range(front) THEN front ELSE Append(front, q[Len(q)])

Count(v, q) == Cardinality({ i \in 1..Len(q) : q[i] = v })

\* series.nunique()
NUnique(cells) == Len(FirstSeen(DropNa(cells)))

\* without the i-th element
Without(q, i) == SubSeq(q, 1, i - 1) \o SubSeq(q, i + 1, Len(q))

\* sort_values(ascending=False) on the counts: keys by descending count
RECURSIVE SortByCount(_, _, _)
SortByCount(keys, q, ties) ==
    IF keys = <<>> THEN <<>>
    ELSE LET top   == CHOOSE i \in 1..Len(keys) :
                          \A j \in 1..Len(keys) : Count(keys[j], q) <= Count(keys[i], q)
             cands == { i \in 1..Len(keys) : Count(keys[i], q) = Count(keys[top], q) }
             pick  == IF ties = "first_seen"
                      THEN CHOOSE i \in cands : \A j \in cands : i <= j
                      ELSE CHOOSE i \in cands : \A j \in cands : i >= j
         IN  <<keys[pick]>> \o SortByCount(Without(keys, pick), q, ties)

\* valid_values.value_counts()
ValueCounts(valid, ties) == SortByCount(FirstSeen(valid), valid, ties)

\* .head(n): the first n, and for negative n all but the last -n
HeadN(q, n) ==
    IF n >= 0 THEN SubSeq(q, 1, IF n < Len(q) THEN n ELSE Len(q))
    ELSE SubSeq(q, 1, IF Len(q) + n > 0 THEN Len(q) + n ELSE 0)

\* lines 86-91 with the size test on the whole column
SampleValues_TestsWholeColumn(cells, n, ties) ==
    IF Len(cells) > 0 THEN HeadN(ValueCounts(cells, ties), n) ELSE <<>>

\* lines 86-91
SampleValues(cells, n, ties) ==
    LET valid_values == DropNa(cells)
    IN  IF Len(valid_values) > 0 THEN HeadN(ValueCounts(valid_values, ties), n) ELSE <<>>

RECURSIVE Sum(_)
Sum(q) == IF q = <<>> THEN 0 ELSE Head(q) + Sum(Tail(q))
MinOf(q) == CHOOSE v \in Range(q) : \A w \in Range(q) : v <= w
MaxOf(q) == CHOOSE v \in Range(q) : \A w \in Range(q) : v >= w

\* lines 94-99 with the emptiness test left out: zeros for a column without values
NumericStats_ZeroWhenEmpty(s) ==
    LET valid_values == DropNa(s.cells)
    IN  IF s.numeric
        THEN IF Len(valid_values) > 0
             THEN [min_value |-> <<MinOf(valid_values)>>,
                   max_value |-> <<MaxOf(valid_values)>>,
                   mean_value |-> <<[sum |-> Sum(valid_values), n |-> Len(valid_values)]>>]
             ELSE [min_value |-> <<0>>, max_value |-> <<0>>,
                   mean_value |-> <<[sum |-> 0, n |-> 1]>>]
        ELSE [min_value |-> <<>>, max_value |-> <<>>, mean_value |-> <<>>]

\* lines 94-99: Optional[float], <<>> is None; the mean is the quotient sum / n
NumericStats(s) ==
    LET valid_values == DropNa(s.cells)
    IN  IF s.numeric /\ Len(valid_values) > 0
        THEN [min_value |-> <<MinOf(valid_values)>>,
              max_value |-> <<MaxOf(valid_values)>>,
              mean_value |-> <<[sum |-> Sum(valid_values), n |-> Len(valid_values)]>>]
        ELSE [min_value |-> <<>>, max_value |-> <<>>, mean_value |-> <<>>]

\* profile_column, lines 72-110
ProfileColumn(s, n, ties) ==
    [name |-> s.name,
     dtype |-> IF s.numeric THEN "numeric" ELSE "object",
     null_rate |-> NullRate(s.cells),
     unique_count |-> NUnique(s.cells),
     sample_values |-> SampleValues(s.cells, n, ties)]
    @@ NumericStats(s)

\* a DataProfiler of any sample size, in either build, handed any column
ColumnInit ==
    /\ AgentInit
    /\ self_max_retries = 0
    /\ profiler_tables = [t \in TableNames |-> 0]
    /\ RunsParked
    /\ MapperParked
    /\ FenceParked
    /\ sample_size \in SampleSizes
    /\ sort_ties \in SortTies
    /\ tables = <<>>
    /\ profiles = <<>>
    /\ profiler_op = NoOp
    /\ series \in { <<s>> : s \in SeriesSet }
    /\ column_profile = <<>>
    /\ ToolParked
    /\ AppParked

\* profile_column(series); calling it again profiles the same column again
profile_column ==
    /\ column_profile' = <<ProfileColumn(series[1], sample_size, sort_ties)>>
    /\ profiler_op' = [profiler_op EXCEPT !.method = "profile_column"]
    /\ UNCHANGED <<agentVars, runsVars, mapperVars, fenceVars, toolVars, appVars, series,
                   sample_size, sort_ties, tables, profiles>>

ColumnNext == profile_column

SpecColumn == ColumnInit /\ [][ColumnNext]_vars

(***************************************************************************)
(* DataProfiler.load_excel and profile_all_tables.  A DataFrame is the     *)
(* sequence of its columns; tables is the dict in insertion order; a text  *)
(* (file stem, sheet name, table name) is the sequence of its pieces.      *)
(***************************************************************************)
Col(n, numeric, cells) == [name |-> n, numeric |-> numeric, cells |-> cells]

\* the sheets read: one without rows, one whose columns are entirely null,
\* one with values in a numeric and in a half-empty object column
NoRowsSheet == << Col("a", FALSE, <<>>), Col("b", TRUE, <<>>) >>
AllNullSheet == << Col("a", TRUE, <<Null, Null>>), Col("b", FALSE, <<Null, Null>>) >>
ValuesSheet == << Col("a", TRUE, <<1, 2>>), Col("b", FALSE, <<Null, 2>>) >>
DataFrames == {NoRowsSheet, AllNullSheet, ValuesSheet}

Stems == { <<"a">>, <<"a", "_", "b">> }
SheetNames == { <<"c">>, <<"b", "_", "c">> }

\* a workbook: its stem and its sheets in order, sheet names distinct
Files ==
    { [stem |-> st, sheets |-> <<[sheet_name |-> n, df |-> d]>>] :
        st \in Stems, n \in SheetNames, d \in DataFrames }
    \cup
    { [stem |-> st, sheets |-> <<[sheet_name |-> <<"c">>, df |-> d],
                                 [sheet_name |-> <<"b", "_", "c">>, df |-> ValuesSheet]>>] :
        st \in Stems, d \in DataFrames }

\* line 66: f"{file_path.stem}_{sheet_name}"
TableName(stem, sheet_name) == stem \o <<"_">> \o sheet_name

\* len(df)
RowCount(df) == IF df = <<>> THEN 0 ELSE Len(df[1].cells)

\* d[k] = v on a dict kept in insertion order
DictSet(d, k, v) ==
    IF \E i \in 1..Len(d) : d[i].name = k
    THEN [i \in 1..Len(d) |-> IF d[i].name = k THEN [name |-> k, df |-> v] ELSE d[i]]
    ELSE Append(d, [name |-> k, df |-> v])

\* lines 64-68: the loop over the sheets
RECURSIVE LoadSheets(_, _, _)
LoadSheets(d, stem, sheets) ==
    IF sheets = <<>> THEN d
    ELSE LoadSheets(DictSet(d, TableName(stem, Head(sheets).sheet_name), Head(sheets).df),
                    stem, Tail(sheets))

\* the workbook holds new data for a name already in the dict
Reloads(d, f) ==
    \E i \in 1..Len(f.sheets), j \in 1..Len(d) :
        /\ d[j].name = TableName(f.stem, f.sheets[i].sheet_name)
        /\ d[j].df # f.sheets[i].df

\* line 128: table_name.split("_", 1)[-1] if "_" in table_name else table_name
SheetNameOf(table_name) ==
    IF \E i \in 1..Len(table_name) : table_name[i] = "_"
    THEN LET i == CHOOSE k \in 1..Len(table_name) :
                      /\ table_name[k] = "_"
                      /\ \A j \in 1..(k - 1) : table_name[j] # "_"
         IN  SubSeq(table_name, i + 1, Len(table_name))
    ELSE table_name

\* profile_all_tables appending to self.profiles instead of replacing it
ProfilesAfter_Appended(old, new) == old \o new

\* line 148: self.profiles = profiles
ProfilesAfter(old, new) == new

\* profile_table, lines 112-134
ProfileTable(table_name, df, n, ties) ==
    [table_name |-> table_name,
     sheet_name |-> SheetNameOf(table_name),
     row_count |-> RowCount(df),
     column_count |-> Len(df),
     columns |-> [i \in 1..Len(df) |-> ProfileColumn(df[i], n, ties)]]

\* DataProfiler(sample_size), nothing loaded
ProfilerInit ==
    /\ AgentInit
    /\ self_max_retries = 0
    /\ profiler_tables = [t \in TableNames |-> 0]
    /\ RunsParked
    /\ MapperParked
    /\ FenceParked
    /\ ColumnParked
    /\ ToolParked
    /\ AppParked
    /\ sample_size \in {0, DefaultSampleSize}
    /\ sort_ties \in SortTies
    /\ tables = <<>>
    /\ profiles = <<>>
    /\ profiler_op = NoOp

ProfilerFrame ==
    UNCHANGED <<agentVars, runsVars, mapperVars, fenceVars, columnVars, toolVars, appVars,
                sample_size, sort_ties>>

\* load_excel, lines 46-70; a path that does not exist raises before anything is read
load_excel ==
    /\ \E exists \in BOOLEAN, f \in Files :
        IF exists
        THEN /\ tables' = LoadSheets(tables, f.stem, f.sheets)
             /\ profiler_op' = [method |-> "load_excel",
                                reloaded |-> profiler_op.reloaded \/ Reloads(tables, f)]
        ELSE /\ tables' = tables
             /\ profiler_op' = [profiler_op EXCEPT !.method = "FileNotFoundError"]
    /\ UNCHANGED profiles
    /\ ProfilerFrame

\* profile_all_tables, lines 136-149
profile_all_tables ==
    /\ profiles' = ProfilesAfter(profiles,
                        [i \in 1..Len(tables) |->
                            ProfileTable(tables[i].name, tables[i].df, sample_size, sort_ties)])
    /\ profiler_op' = [profiler_op EXCEPT !.method = "profile_all_tables"]
    /\ UNCHANGED tables
    /\ ProfilerFrame

ProfilerNext ==
    \/ load_excel
    \/ profile_all_tables

SpecProfiler == ProfilerInit /\ [][ProfilerNext]_vars

(***************************************************************************)
(* PythonTool.execute_with_retry (2-auto-ba-agent-context, python_tool.py).*)
(* A code text is identified with what executing it does.                  *)
(***************************************************************************)
MAX_RETRIES == 3

\* "" and "no_result" bind no result, "raises" and "raises_too" raise an
\* Exception, "exits" raises SystemExit, "succeeds" binds result
CodeTexts == {"", "no_result", "raises", "raises_too", "exits", "succeeds"}

\* execute, lines 25-63; `except Exception` lets SystemExit through
Execute(c) ==
    CASE c = "succeeds" ->
            [raised |-> FALSE, success |-> TRUE, result |-> "result_str", error |-> "", code |-> c]
      [] c \in {"raises", "raises_too"} ->
            [raised |-> FALSE, success |-> FALSE, result |-> "", error |-> "exception", code |-> c]
      [] c = "exits" ->
            [raised |-> TRUE, success |-> FALSE, result |-> "", error |-> "", code |-> c]
      [] OTHER ->
            [raised |-> FALSE, success |-> FALSE, result |-> "", error |-> "no_result", code |-> c]

\* what api_call_func does with the prompt: raises, or returns a code text,
\* bare or wrapped in a fence
FixResponses ==
    { [kind |-> "raises", fenced |-> FALSE, code |-> ""] }
    \cup { [kind |-> "text", fenced |-> f, code |-> c] : f \in BOOLEAN, c \in CodeTexts }

\* _fix_code, lines 103-137: None is <<>>; the fence lines are dropped
FixCode(has_func, response) ==
    IF ~has_func THEN <<>>
    ELSE IF response.kind = "raises" THEN <<>>
    ELSE <<response.code>>

\* line 95: fixed_code and fixed_code != current_code
Usable(fixed_code, cur) == fixed_code # <<>> /\ fixed_code[1] # "" /\ fixed_code[1] # cur

\* line 93 without the test on attempt
AsksFix_OnEveryFailure(has_func, att) == has_func

\* line 93: self.api_call_func and attempt < self.MAX_RETRIES
AsksFix(has_func, att) == has_func /\ att < MAX_RETRIES

\* a PythonTool built with or without api_call_func
ToolInit ==
    /\ AgentInit
    /\ self_max_retries = 0
    /\ profiler_tables = [t \in TableNames |-> 0]
    /\ RunsParked
    /\ MapperParked
    /\ FenceParked
    /\ ColumnParked
    /\ ProfilerParked
    /\ AppParked
    /\ api_call_func \in BOOLEAN
    /\ tool_pc = "idle"
    /\ attempt = 0
    /\ current_code = <<>>
    /\ result = <<>>
    /\ executions = <<>>
    /\ fix_calls = 0

ToolFrame ==
    UNCHANGED <<agentVars, runsVars, mapperVars, fenceVars, columnVars, profilerVars,
                appVars, api_call_func>>

\* execute_with_retry(code, ...), lines 79-81: the call, up to the first execute
execute_with_retry ==
    /\ tool_pc \in {"idle", "returned", "raised"}
    /\ \E c \in CodeTexts : current_code' = <<c>>
    /\ attempt' = 1
    /\ tool_pc' = "execute"
    /\ result' = <<>>
    /\ executions' = <<>>
    /\ fix_calls' = 0
    /\ ToolFrame

\* lines 82-93 and, where no fix is asked for, the step of the loop to the
\* next attempt or the return of line 101
execute ==
    /\ tool_pc = "execute"
    /\ LET r == Execute(current_code[1])
       IN  /\ executions' = Append(executions, current_code[1])
           /\ IF r.raised
              THEN /\ tool_pc' = "raised"
                   /\ UNCHANGED <<result, attempt>>
              ELSE /\ result' = <<[success |-> r.success, result |-> r.result,
                                   error |-> r.error, code |-> r.code,
                                   attempts |-> attempt]>>
                   /\ IF r.success
                      THEN tool_pc' = "returned" /\ UNCHANGED attempt
                      ELSE IF AsksFix(api_call_func, attempt)
                      THEN tool_pc' = "fix" /\ UNCHANGED attempt
                      ELSE IF attempt < MAX_RETRIES
                      THEN tool_pc' = "execute" /\ attempt' = attempt + 1
                      ELSE tool_pc' = "returned" /\ UNCHANGED attempt
    /\ UNCHANGED <<current_code, fix_calls>>
    /\ ToolFrame

\* lines 94-99: the fix is asked for, and taken or the loop left
fix_code ==
    /\ tool_pc = "fix"
    /\ fix_calls' = fix_calls + 1
    /\ \E response \in FixResponses :
          LET fixed_code == FixCode(api_call_func, response)
          IN  IF Usable(fixed_code, current_code[1])
              THEN /\ current_code' = fixed_code
                   /\ IF attempt < MAX_RETRIES
                      THEN tool_pc' = "execute" /\ attempt' = attempt + 1
                      ELSE tool_pc' = "returned" /\ UNCHANGED attempt
              ELSE /\ tool_pc' = "returned"
                   /\ UNCHANGED <<current_code, attempt>>
    /\ UNCHANGED <<result, executions>>
    /\ ToolFrame

ToolNext ==
    \/ execute_with_retry
    \/ execute
    \/ fix_code

SpecTool == ToolInit /\ [][ToolNext]_vars

(***************************************************************************)
(* BAAgentApp (app.py): one DataProfiler, one SemanticMapper and one       *)
(* session for the life of the application; load_excel builds the agent.   *)
(* The run of BAAgent.analyze is represented by how it ends.               *)
(***************************************************************************)
\* BAAgentApp calls made are at most MaxAppCalls
MaxAppCalls == 4

\* the workbooks loaded and the maps the collaborator proposes
AppFiles ==
    { [stem |-> <<"a">>, sheets |-> <<[sheet_name |-> <<"c">>, df |-> d]>>] :
        d \in {AllNullSheet, ValuesSheet} }
OrdersMap == [nodes |-> <<[table |-> <<"orders">>]>>, edges |-> <<>>]
ProductsMap == [nodes |-> <<[table |-> <<"products">>]>>, edges |-> <<>>]
AppReplies ==
    { r \in MapperReplies :
        \/ r.kind \in {"not_json", "llm_call_failed"}
        \/ r.kind = "map" /\ r.map \in {OrdersMap, ProductsMap} }

\* to_dict, lines 136-140: {} is <<>>, model_dump() the keys with their values
ToDict(stored) ==
    IF stored = Unset THEN <<>>
    ELSE <<"nodes", stored[1].nodes, "edges", stored[1].edges>>

\* how BAAgent.analyze ends: the answer of format_answer, an Exception out of
\* graph.invoke (a failed llm.invoke, GraphRecursionError), or an exception
\* that is no Exception (SystemExit out of exec)
AgentOutcomes ==
    { [kind |-> "answer", text |-> "result"],
      [kind |-> "answer", text |-> "failed"],
      [kind |-> "Exception", text |-> "llm_call_failed"],
      [kind |-> "BaseException", text |-> "SystemExit"] }

Queries == {"q1", "q2"}

\* analyze, line 146: except Exception
CaughtByApp(kind) == kind = "Exception"

\* BAAgentApp.__init__, lines 54-63
AppInit ==
    /\ AgentInit
    /\ self_max_retries = 0
    /\ profiler_tables = [t \in TableNames |-> 0]
    /\ RunsParked
    /\ MapperParked
    /\ FenceParked
    /\ RestParked

AppFrame ==
    UNCHANGED <<agentVars, runsVars, fenceVars, columnVars, toolVars, sample_size, sort_ties>>

\* BAAgentApp.load_excel, lines 73-116
app_load_excel ==
    /\ app_calls < MaxAppCalls
    /\ app_calls' = app_calls + 1
    /\ \E exists \in BOOLEAN, f \in AppFiles, reply \in AppReplies :
        IF ~exists
        THEN \* data_profiler.load_excel raises FileNotFoundError
             /\ app_call' = [op |-> "load_excel", outcome |-> "raised",
                             value |-> <<"FileNotFoundError">>, semantic_map |-> <<>>]
             /\ profiler_op' = [profiler_op EXCEPT !.method = "FileNotFoundError"]
             /\ UNCHANGED <<tables, profiles, semantic_map, mapper_result, app_agent,
                            data_sources>>
        ELSE LET loaded == LoadSheets(tables, f.stem, f.sheets)
                 out    == GenerateOutcome(reply, semantic_map)
             IN  /\ tables' = loaded
                 /\ profiles' = ProfilesAfter(profiles,
                        [i \in 1..Len(loaded) |->
                            ProfileTable(loaded[i].name, loaded[i].df, sample_size, sort_ties)])
                 /\ profiler_op' = [method |-> "profile_all_tables",
                                    reloaded |-> profiler_op.reloaded \/ Reloads(tables, f)]
                 /\ semantic_map' = out.stored
                 /\ mapper_result' =
                        [op |-> "generate_semantic_map", reply |-> reply.kind,
                         outcome |-> out.outcome, error |-> out.error, value |-> out.value,
                         ever_generated |-> mapper_result.ever_generated
                                                \/ reply.kind = "map",
                         ever_failed |-> mapper_result.ever_failed \/ reply.kind # "map"]
                 /\ app_agent' = <<[map_generated |-> out.outcome = "returned"]>>
                 /\ data_sources' = Append(data_sources,
                        [file_path |-> f.stem, semantic_map |-> ToDict(out.stored)])
                 /\ app_call' = [op |-> "load_excel", outcome |-> "returned",
                                 value |-> <<>>, semantic_map |-> <<>>]
    /\ UNCHANGED conversations
    /\ AppFrame

\* BAAgentApp.analyze, lines 118-159, with save_conversation
app_analyze ==
    /\ app_calls < MaxAppCalls
    /\ app_calls' = app_calls + 1
    /\ \E query \in Queries, o \in AgentOutcomes :
        IF app_agent = <<>>
        THEN /\ app_call' = [op |-> "analyze", outcome |-> "returned",
                             value |-> <<"load_excel_first">>, semantic_map |-> <<>>]
             /\ UNCHANGED conversations
        ELSE IF o.kind = "answer"
        THEN /\ conversations' = Append(conversations,
                    [query |-> query, result |-> <<o.text>>, error |-> <<>>])
             /\ app_call' = [op |-> "analyze", outcome |-> "returned",
                             value |-> <<o.text>>, semantic_map |-> ToDict(semantic_map)]
        ELSE IF CaughtByApp(o.kind)
        THEN /\ conversations' = Append(conversations,
                    [query |-> query, result |-> <<>>, error |-> <<o.text>>])
             /\ app_call' = [op |-> "analyze", outcome |-> "returned",
                             value |-> <<"analysis_failed", o.text>>,
                             semantic_map |-> ToDict(semantic_map)]
        ELSE /\ app_call' = [op |-> "analyze", outcome |-> "raised",
                             value |-> <<o.text>>, semantic_map |-> ToDict(semantic_map)]
             /\ UNCHANGED conversations
    /\ UNCHANGED <<tables, profiles, profiler_op, semantic_map, mapper_result, app_agent,
                   data_sources>>
    /\ AppFrame

AppNext ==
    \/ app_load_excel
    \/ app_analyze

SpecApp == AppInit /\ [][AppNext]_vars

(***************************************************************************)
(* Properties of the analysis run.                                         *)
(***************************************************************************)

\* C1: every run ends after at most max_retries + 1 executions of
\* execution_verification, and ends at END, whatever the replies and the
\* outcomes of the executions are.
C1_TerminatesWithinBudget ==
    /\ execs <= max_retries + 1
    /\ raised # "GraphRecursionError"

\* C2: within a run retry_count starts at 0, never decreases from one stage
\* to the next and never exceeds max_retries (in the AgentState and in the
\* dict should_retry works on).
C2_RetryCountBounded ==
    [][ /\ (pc' = "intent_routing" => retry_count' = 0)
        /\ (pc \in Nodes => retry_count' >= retry_count)
        /\ retry_count' <= max_retries'
        /\ branch_retry_count' <= max_retries' ]_vars

C2_Witness == route = "retry" /\ pc = "code_generation" /\ execs >= 2

\* C3: after each execution_verification the route is success iff error is
\* empty, give_up iff error is non-empty and retry_count >= max_retries, and
\* retry otherwise; the k-th consecutive failed attempt is decided with
\* retry_count = k - 1.
C3_RouteSeesIncrement ==
    (route # "none" /\ raised # "BaseException") =>
        /\ (route = "success" <=> error = EmptyStr)
        /\ (route = "give_up" <=> (error # EmptyStr /\ retry_count >= max_retries))
        /\ (route = "retry" <=> (error # EmptyStr /\ retry_count < max_retries))
        /\ (error # EmptyStr => retry_count = execs - 1)

IsCartesianError(e) == Len(e) > 0 /\ e[1] = "cartesian_product"

\* C4: a DataFrame result with more than 2 times the combined row count of
\* the loaded tables is rejected with a cartesian-product error and a null
\* execution_result; one with at most 2 times that total is not flagged.
C4_CartesianGuard ==
    [][ (pc = "execution_verification" /\ code.kind = "DataFrame") =>
            LET total == SumRows(profiler_tables)
            IN  /\ (code.rows > 2 * total =>
                        IsCartesianError(error') /\ execution_result' = None)
                /\ (code.rows <= 2 * total => ~IsCartesianError(error')) ]_vars

\* C5: code that binds no result ends the attempt with the missing-result
\* error and a null execution_result, and with retry_count < max_retries
\* logical_planning is re-entered with retry_count increased by exactly 1.
C5_MissingResultOneRetry ==
    [][ (pc = "execution_verification" /\ code.kind = "no_result") =>
            /\ error' = MissingResultError
            /\ execution_result' = None
            /\ (retry_count < max_retries =>
                    pc' = "logical_planning" /\ retry_count' = retry_count + 1) ]_vars

\* C6: the logical_planning call that follows a failed attempt passes the
\* error of that attempt to the text-generation collaborator.
C6_ReplanSeesError ==
    (llm_input.stage = "logical_planning" /\ execs > 0) =>
        ("error" \in DOMAIN llm_input /\ llm_input.error = error)

\* C7: whatever exception the generated code raises, execution_verification
\* records it in error, sets execution_result to null and lets nothing out.
C7_AnyExceptionCaught ==
    [][ (pc = "execution_verification"
         /\ code.kind \in {"raises_Exception", "raises_BaseException"}) =>
            /\ error' = ExceptionError
            /\ execution_result' = None
            /\ pc' # "raised" ]_vars

\* C8: once the retry budget is used up (max_retries + 1 executions made, the
\* last one failed) the run goes to format_answer and analyze returns the
\* failure text that embeds the error of the last attempt; it does not raise.
C8_GiveUpReturnsText ==
    (error # EmptyStr /\ execs >= max_retries + 1 /\ raised \notin {"BaseException", LLMFailure}) =>
        \/ pc = "format_answer"
        \/ pc = "END" /\ answer = <<"failed", error>>

\* C9: a failure of the text-generation call in a stage does not raise out
\* of the run (it is recorded in error and decided by should_retry).
C9_LLMFailureContained ==
    ~(pc = "raised" /\ raised = LLMFailure)

\* C10: at END the answer is the failure message embedding error iff error is
\* non-empty, and otherwise embeds the execution_result of the last attempt;
\* a success after failed attempts yields a success answer.
C10_AnswerMatchesFinalError ==
    pc = "END" =>
        /\ (error # EmptyStr => answer = <<"failed", error>>)
        /\ (error = EmptyStr => answer = <<"result", execution_result>>)
        /\ (route = "success" => answer[1] = "result")

C10_Witness == pc = "END" /\ execs >= 2 /\ answer[1] = "result"

\* C11: the stages run one at a time in the order intent_routing (once, first),
\* then logical_planning, code_generation, execution_verification repeated
\* in that order (a retry re-enters logical_planning), then format_answer
\* (once, last) and END.  A run that an exception ends stops inside this order.
C11_StageOrder ==
    [][ /\ (pc' = "intent_routing" => pc \in {"idle", "END", "raised"})
        /\ (pc = "intent_routing" => pc' \in {"logical_planning", "raised"})
        /\ (pc = "logical_planning" => pc' \in {"code_generation", "raised"})
        /\ (pc = "code_generation" => pc' \in {"execution_verification", "raised"})
        /\ (pc = "execution_verification" =>
                pc' \in {"logical_planning", "format_answer", "raised"})
        /\ (pc' = "logical_planning" => pc \in {"intent_routing", "execution_verification"})
        /\ (pc' = "format_answer" => pc = "execution_verification")
        /\ (pc = "format_answer" => pc' \in {"END", "raised"})
        /\ (pc' = "END" => pc = "format_answer")
        /\ steps' \in {0, steps, steps + 1} ]_vars

C11_Witness == pc = "END" /\ execs = 3

\* C12: an attempt whose code binds result to a scalar, or to a DataFrame with
\* at most 2 times the rows of the loaded tables, is accepted with empty
\* error; on the first attempt the run then goes to format_answer with
\* retry_count 0 after one planning, one code generation and one execution.
C12_AcceptedFirstAttempt ==
    [][ (/\ pc = "execution_verification"
         /\ \/ code.kind = "scalar"
            \/ code.kind = "DataFrame" /\ code.rows <= 2 * SumRows(profiler_tables)) =>
            /\ error' = EmptyStr
            /\ execution_result' # None
            /\ (execs = 0 =>
                    /\ pc' = "format_answer"
                    /\ retry_count' = 0
                    /\ execs' = 1
                    /\ steps' = 4) ]_vars

\* C13: running generated code leaves the loaded tables as they were loaded.
C13_TablesUntouched ==
    [][ pc = "execution_verification" => profiler_tables' = profiler_tables ]_vars

\* C27: every execution_verification that returns leaves error empty exactly
\* when execution_result is non-null: accepted with a result and no error, or
\* rejected with an error and no result, whatever the attempt before left.
C27_ErrorXorResult ==
    [][ (pc = "execution_verification" /\ pc' # "raised") =>
            ((error' = EmptyStr) <=> (execution_result' # None)) ]_vars

\* an accepted attempt that follows a rejected one
C27_Witness ==
    /\ pc = "format_answer"
    /\ execs >= 2
    /\ error = EmptyStr
    /\ execution_result # None

\* C28: the row total the cartesian-product guard judges a DataFrame result
\* against is the combined row count of the tables before the code ran: the
\* verdict is the one the same result gets from code that leaves the tables
\* binding alone, and a rejection reports that total.
C28_ThresholdBeforeRun ==
    [][ (pc = "execution_verification" /\ code.kind = "DataFrame") =>
            LET untouched == [code EXCEPT !.effect = "none"]
            IN  /\ IsCartesianError(error') <=>
                       IsCartesianError(ExecOutcome(untouched, profiler_tables).error)
                /\ (IsCartesianError(error') =>
                        error'[3] = SumRows(profiler_tables)) ]_vars

(***************************************************************************)
(* Properties of the DataProfiler.                                         *)
(***************************************************************************)
Profiled == profiler_op.method = "profile_all_tables"
AllNull(cells) == \A i \in 1..Len(cells) : cells[i] = Null

C24_OneProfilePerTable ==
    Profiled =>
        /\ \A i, k \in 1..Len(profiles) :
              profiles[i].table_name = profiles[k].table_name => i = k
        /\ \A i \in 1..Len(tables) :
              \E k \in 1..Len(profiles) :
                  LET p  == profiles[k]
                      df == tables[i].df
                  IN  /\ p.table_name = tables[i].name
                      /\ p.column_count = Len(p.columns)
                      /\ Len(p.columns) = Len(df)
                      /\ \A j \in 1..Len(df) :
                            /\ p.columns[j].name = df[j].name
                            /\ p.columns[j].null_rate = NullRate(df[j].cells)
                      /\ p.row_count = RowCount(df)
        /\ \A k \in 1..Len(profiles) :
              \E i \in 1..Len(tables) : tables[i].name = profiles[k].table_name

\* profiled again after a load put new data under a loaded name
C24_Witness ==
    /\ Profiled
    /\ profiler_op.reloaded
    /\ Len(profiles) >= 2

ColumnProfiled == column_profile # <<>>
FirstPos(v, q) == CHOOSE i \in 1..Len(q) : q[i] = v /\ \A j \in 1..(i - 1) : q[j] # v
\* v comes before w: more frequent, or as frequent and seen first
RanksBefore(v, w, q) ==
    \/ Count(v, q) > Count(w, q)
    \/ Count(v, q) = Count(w, q) /\ FirstPos(v, q) < FirstPos(w, q)

\* C22: sample_values is the sequence of the column's distinct non-null
\* values by descending frequency, ties in first-seen order, cut to the
\* sample size N; profiling the column again gives the same sequence.
C22_SampleOrder ==
    [][ (ColumnProfiled' /\ sample_size >= 0) =>
            LET cells  == series[1].cells
                sv     == column_profile'[1].sample_values
                values == Range(DropNa(cells))
            IN  /\ Range(sv) \subseteq values
                /\ Len(sv) = IF sample_size < Cardinality(values)
                             THEN sample_size ELSE Cardinality(values)
                /\ \A i, j \in 1..Len(sv) : i < j => RanksBefore(sv[i], sv[j], cells)
                /\ \A v \in values \ Range(sv) :
                      \A i \in 1..Len(sv) : RanksBefore(sv[i], v, cells)
                /\ (ColumnProfiled => column_profile' = column_profile) ]_vars

\* C23: sample_values is empty exactly when the column has no non-null
\* value, is no longer than the sample size, holds no null and no duplicate;
\* null_rate lies in [0,1] and is nulls / rows of the whole column, 0 for a
\* column without rows.
C23_SampleAndNullRate ==
    ColumnProfiled =>
        LET cells == series[1].cells
            p     == column_profile[1]
            sv    == p.sample_values
        IN  /\ (sv = <<>>) <=> (DropNa(cells) = <<>>)
            /\ Len(sv) <= sample_size
            /\ Null \notin Range(sv)
            /\ \A i, j \in 1..Len(sv) : sv[i] = sv[j] => i = j
            /\ p.null_rate >= 0 /\ p.null_rate <= 10000
            /\ p.null_rate * Len(cells) = NullCount(cells) * 10000

(***************************************************************************)
(* Properties of PythonTool.execute_with_retry.                            *)
(***************************************************************************)
\* C26: a call performs at most MAX_RETRIES executions and none after a
\* successful one; it returns at the first success; attempts is the number of
\* executions performed, between 1 and MAX_RETRIES; a fix is asked for at
\* most MAX_RETRIES - 1 times and never after the last allowed attempt.
C26_BoundedRetries ==
    /\ Len(executions) <= MAX_RETRIES
    /\ \A i \in 1..(Len(executions) - 1) : ~Execute(executions[i]).success
    /\ (Len(executions) > 0 /\ Execute(executions[Len(executions)]).success) =>
            tool_pc = "returned" /\ result[1].success
    /\ tool_pc = "returned" =>
            /\ result[1].attempts = Len(executions)
            /\ result[1].attempts \in 1..MAX_RETRIES
    /\ fix_calls <= MAX_RETRIES - 1
    /\ tool_pc = "fix" => Len(executions) < MAX_RETRIES

\* a call that used every attempt and every fix
C26_Witness ==
    /\ tool_pc = "returned"
    /\ result[1].attempts = MAX_RETRIES
    /\ fix_calls = MAX_RETRIES - 1

\* C29: no two consecutive attempts of a call execute the same code text,
\* with or without api_call_func, and the code returned is the code whose
\* execution produced the returned result or error.
C29_NoRepeatedCode ==
    /\ \A i \in 1..(Len(executions) - 1) : executions[i] # executions[i + 1]
    /\ tool_pc = "returned" =>
            /\ result[1].code = executions[Len(executions)]
            /\ result[1].success = Execute(result[1].code).success
            /\ result[1].error = Execute(result[1].code).error

(***************************************************************************)
(* Properties of BAAgentApp.                                               *)
(***************************************************************************)
AnalyzeStep == app_calls' = app_calls + 1 /\ app_call'.op = "analyze"

\* C25: an agent built by a load_excel whose semantic map generation failed
\* runs its analyses with an empty semantic map, also when an earlier
\* load_excel of the application had generated a map.
C25_EmptyMapAfterFailure ==
    [][ (AnalyzeStep /\ app_agent # <<>> /\ ~app_agent[1].map_generated) =>
            app_call'.semantic_map = <<>> ]_vars

\* C30: an analyze call after load_excel returns a string and appends exactly
\* one conversation record, carrying the answer or the error; one before any
\* load_excel returns the error string and appends none; records already
\* there are neither changed nor removed.
C30_OneRecordPerAnalyze ==
    [][ /\ (AnalyzeStep /\ app_agent # <<>>) =>
              /\ app_call'.outcome = "returned"
              /\ Len(conversations') = Len(conversations) + 1
              /\ LET rec == conversations'[Len(conversations')]
                 IN  \/ rec.error = <<>> /\ rec.result = app_call'.value
                     \/ rec.result = <<>> /\ rec.error # <<>>
                            /\ app_call'.value = <<"analysis_failed">> \o rec.error
        /\ (AnalyzeStep /\ app_agent = <<>>) =>
              /\ app_call'.outcome = "returned"
              /\ app_call'.value = <<"load_excel_first">>
              /\ conversations' = conversations
        /\ Len(conversations') >= Len(conversations)
        /\ SubSeq(conversations', 1, Len(conversations)) = conversations ]_vars

=============================================================================
